---- MODULE Spec2Model ----
(***************************************************************************)
(* Model of x/auth/tx/config.go: resolution of ConfigOptions, construction *)
(* of the sign-mode handler map (NewSigningHandlerMap), the TxConfig       *)
(* constructors, and the builder operations of the config facade           *)
(* (NewTxBuilder, WrapTxBuilder).                                          *)
(*                                                                         *)
(* The file holds both sides of an unresolved merge; the constructor       *)
(* NewTxConfig modelled here is the one that goes through                  *)
(* NewTxConfigWithOptions and NewSigningHandlerMap.                        *)
(*                                                                         *)
(* A Go nil is modelled by a value of the same shape carrying nil |-> TRUE *)
(* (records) or by the empty string (function values, resolvers, errors).  *)
(***************************************************************************)
EXTENDS Naturals, Sequences, FiniteSets

VARIABLES
  sdkConfig,   \* process-wide bech32 prefix configuration (sdk.GetConfig())
  callerOpts,  \* the ConfigOptions value held by the caller of the constructors
  faults,      \* collaborators (context, textual) that report an error of their own
  first,       \* outcome of NewSigningHandlerMap(callerOpts)
  second,      \* outcome of a repeated NewSigningHandlerMap(callerOpts)
  cfgRes,      \* outcome of NewTxConfig / NewTxConfigWithOptions
  facade,      \* the config value whose builder operations are exercised
  heap,        \* transaction objects, by reference
  wraps        \* WrapTxBuilder calls made so far, oldest first

vars == <<sdkConfig, callerOpts, faults, first, second, cfgRes, facade, heap, wraps>>

hmVars == <<sdkConfig, callerOpts, faults, first, second, cfgRes>>
txVars == <<facade, heap, wraps>>

(***************************************************************************)
(* Bounds of the model.                                                    *)
(***************************************************************************)
MaxEnabled == 2     \* longest EnabledSignModes list tried
MaxCustom == 2      \* longest CustomSignModes list tried
MaxObjs == 2        \* transaction objects that can be allocated
MaxWraps == 2       \* WrapTxBuilder calls recorded

(***************************************************************************)
(* Sign modes.  The built-in switch knows four of them; SIGN_MODE_UNSPECIFIED *)
(* and SIGN_MODE_EIP_191 are values it has no case for.                    *)
(***************************************************************************)
SIGN_MODE_UNSPECIFIED == "SIGN_MODE_UNSPECIFIED"
SIGN_MODE_DIRECT == "SIGN_MODE_DIRECT"
SIGN_MODE_TEXTUAL == "SIGN_MODE_TEXTUAL"
SIGN_MODE_DIRECT_AUX == "SIGN_MODE_DIRECT_AUX"
SIGN_MODE_LEGACY_AMINO_JSON == "SIGN_MODE_LEGACY_AMINO_JSON"
SIGN_MODE_EIP_191 == "SIGN_MODE_EIP_191"

SignMode == {SIGN_MODE_UNSPECIFIED, SIGN_MODE_DIRECT, SIGN_MODE_TEXTUAL,
             SIGN_MODE_DIRECT_AUX, SIGN_MODE_LEGACY_AMINO_JSON, SIGN_MODE_EIP_191}

SwitchModes == {SIGN_MODE_DIRECT, SIGN_MODE_DIRECT_AUX,
                SIGN_MODE_LEGACY_AMINO_JSON, SIGN_MODE_TEXTUAL}

DefaultSignModes == <<SIGN_MODE_DIRECT, SIGN_MODE_LEGACY_AMINO_JSON>>

(***************************************************************************)
(* Errors.  NoError is Go's nil error.                                     *)
(***************************************************************************)
NoError == ""
ErrNewContext == "txsigning.NewContext failed"
ErrDirectAux == "directaux.NewSignModeHandler failed"
ErrTextual == "textual.NewSignModeHandler failed"
ErrNoQueryFn == "cannot enable SIGN_MODE_TEXTUAL without a TextualCoinMetadataQueryFn"
ErrUnsupportedMode == "unsupported sign mode"
ErrTypeMismatch == "expected pointer to tx.wrapper, got another type"

NoPanic == ""
PanicNoHandlers == "no handlers"
PanicNilHandler == "nil handler"

(***************************************************************************)
(* Signing options, signing context, handlers.                             *)
(***************************************************************************)
NilCodec == [nil |-> TRUE, Bech32Prefix |-> ""]

NewBech32Codec(prefix) == [nil |-> FALSE, Bech32Prefix |-> prefix]

NilOptions ==
  [nil |-> TRUE, AddressCodec |-> NilCodec, ValidatorAddressCodec |-> NilCodec,
   TypeResolver |-> "", FileResolver |-> ""]

NilContext ==
  [nil |-> TRUE, addressCodec |-> NilCodec, validatorAddressCodec |-> NilCodec,
   typeResolver |-> "", fileResolver |-> ""]

NilHandler ==
  [nil |-> TRUE, mode |-> "", impl |-> "", TypeResolver |-> "", FileResolver |-> "",
   SignersContext |-> NilContext, CoinMetadataQuerier |-> ""]

\* A handler supplied by the caller through ConfigOptions.CustomSignModes.
CustomHandler(m) ==
  [nil |-> FALSE, mode |-> m, impl |-> "custom", TypeResolver |-> "", FileResolver |-> "",
   SignersContext |-> NilContext, CoinMetadataQuerier |-> ""]

NewDefaultSigningOptions(sdkCfg) ==
  [options |->
     [nil |-> FALSE,
      AddressCodec |-> NewBech32Codec(sdkCfg.bech32AccountAddrPrefix),
      ValidatorAddressCodec |-> NewBech32Codec(sdkCfg.bech32ValidatorAddrPrefix),
      TypeResolver |-> "", FileResolver |-> ""],
   err |-> NoError]

\* txsigning.NewContext: the context is derived from the options it is given.
NewContext(options, f) ==
  IF "context" \in f
    THEN [context |-> NilContext, err |-> ErrNewContext]
    ELSE [context |->
            [nil |-> FALSE, addressCodec |-> options.AddressCodec,
             validatorAddressCodec |-> options.ValidatorAddressCodec,
             typeResolver |-> options.TypeResolver,
             fileResolver |-> options.FileResolver],
          err |-> NoError]

\* directaux.NewSignModeHandler: fails when the type resolver is absent.
DirectAuxNewSignModeHandler(typeResolver, signersContext, f) ==
  IF typeResolver = ""
    THEN [h |-> NilHandler, err |-> ErrDirectAux]
    ELSE [h |-> [nil |-> FALSE, mode |-> SIGN_MODE_DIRECT_AUX, impl |-> "directaux",
                 TypeResolver |-> typeResolver, FileResolver |-> "",
                 SignersContext |-> signersContext, CoinMetadataQuerier |-> ""],
          err |-> NoError]

\* aminojson.NewSignModeHandler: no error result.
AminoJSONNewSignModeHandler(fileResolver, typeResolver) ==
  [nil |-> FALSE, mode |-> SIGN_MODE_LEGACY_AMINO_JSON, impl |-> "aminojson",
   TypeResolver |-> typeResolver, FileResolver |-> fileResolver,
   SignersContext |-> NilContext, CoinMetadataQuerier |-> ""]

\* textual.NewSignModeHandler: fails when no coin metadata querier is given.
TextualNewSignModeHandler(querier, fileResolver, typeResolver, f) ==
  IF querier = "" \/ "textual" \in f
    THEN [h |-> NilHandler, err |-> ErrTextual]
    ELSE [h |-> [nil |-> FALSE, mode |-> SIGN_MODE_TEXTUAL, impl |-> "textual",
                 TypeResolver |-> typeResolver, FileResolver |-> fileResolver,
                 SignersContext |-> NilContext, CoinMetadataQuerier |-> querier],
          err |-> NoError]

DirectSignModeHandler ==
  [nil |-> FALSE, mode |-> SIGN_MODE_DIRECT, impl |-> "direct", TypeResolver |-> "",
   FileResolver |-> "", SignersContext |-> NilContext, CoinMetadataQuerier |-> ""]

(***************************************************************************)
(* txsigning.HandlerMap.                                                   *)
(***************************************************************************)
NilHandlerMap ==
  [nil |-> TRUE, signModeHandlers |-> [m \in SignMode |-> NilHandler],
   defaultMode |-> "", modes |-> <<>>]

\* The handler registered last for a mode is the one the map keeps.
RECURSIVE Register(_, _, _)
Register(handlers, i, table) ==
  IF i > Len(handlers) THEN table
  ELSE Register(handlers, i + 1, [table EXCEPT ![handlers[i].mode] = handlers[i]])

\* txsigning.NewHandlerMap: every handler is asked for its Mode(); the mode of
\* the first handler becomes the default.  A nil handler has no Mode() to call.
NewHandlerMap(handlers) ==
  IF Len(handlers) = 0
    THEN [handler |-> NilHandlerMap, panic |-> PanicNoHandlers]
  ELSE IF \E i \in 1..Len(handlers) : handlers[i].nil
    THEN [handler |-> NilHandlerMap, panic |-> PanicNilHandler]
  ELSE [handler |->
          [nil |-> FALSE,
           signModeHandlers |-> Register(handlers, 1, [m \in SignMode |-> NilHandler]),
           defaultMode |-> handlers[1].mode,
           modes |-> [i \in 1..Len(handlers) |-> handlers[i].mode]],
        panic |-> NoPanic]

DefaultMode(hm) == hm.defaultMode

SupportedModes(hm) == hm.modes

\* Lookup of the handler for a mode, as done by HandlerMap.GetSignBytes.
Lookup(hm, m) ==
  IF hm.signModeHandlers[m].nil
    THEN [h |-> NilHandler, err |-> ErrUnsupportedMode]
    ELSE [h |-> hm.signModeHandlers[m], err |-> NoError]

(***************************************************************************)
(* ConfigOptions.                                                          *)
(***************************************************************************)
NilConfigOptions ==
  [EnabledSignModes |-> <<>>, CustomSignModes |-> <<>>, SigningOptions |-> NilOptions,
   SigningContext |-> NilContext, TextualCoinMetadataQueryFn |-> ""]

\* The zero-initialised slice of make([]txsigning.SignModeHandler, n).
MakeHandlers(n) == [i \in 1..n |-> NilHandler]

\* NewSigningHandlerMap takes configOpts by value: assignments to the fields
\* of the parameter stay in the callee's copy.
CallerSees_ByReference(passed, local) == local

CallerSees(passed, local) == passed

\* One pass through the switch over the enabled mode m: the handler stored in
\* the slot, and the error with which the function returns from inside the
\* switch (NoError when the loop goes on).
SwitchCase_TextualWithoutCheck(m, configOpts, signingOpts, f) ==
  LET aux == DirectAuxNewSignModeHandler(signingOpts.TypeResolver,
                                         configOpts.SigningContext, f)
      txt == TextualNewSignModeHandler(configOpts.TextualCoinMetadataQueryFn,
                                       signingOpts.FileResolver,
                                       signingOpts.TypeResolver, f)
  IN CASE m = SIGN_MODE_DIRECT -> [h |-> DirectSignModeHandler, err |-> NoError]
       [] m = SIGN_MODE_DIRECT_AUX -> [h |-> aux.h, err |-> aux.err]
       [] m = SIGN_MODE_LEGACY_AMINO_JSON ->
            [h |-> AminoJSONNewSignModeHandler(signingOpts.FileResolver,
                                               signingOpts.TypeResolver),
             err |-> NoError]
       [] m = SIGN_MODE_TEXTUAL -> [h |-> txt.h, err |-> txt.err]
       [] OTHER -> [h |-> NilHandler, err |-> NoError]

SwitchCase_WrongCase(m, configOpts, signingOpts, f) ==
  LET aux == DirectAuxNewSignModeHandler(signingOpts.TypeResolver,
                                         configOpts.SigningContext, f)
      txt == TextualNewSignModeHandler(configOpts.TextualCoinMetadataQueryFn,
                                       signingOpts.FileResolver,
                                       signingOpts.TypeResolver, f)
  IN CASE m = SIGN_MODE_DIRECT ->
            [h |-> AminoJSONNewSignModeHandler(signingOpts.FileResolver,
                                               signingOpts.TypeResolver),
             err |-> NoError]
       [] m = SIGN_MODE_DIRECT_AUX -> [h |-> aux.h, err |-> aux.err]
       [] m = SIGN_MODE_LEGACY_AMINO_JSON ->
            [h |-> AminoJSONNewSignModeHandler(signingOpts.FileResolver,
                                               signingOpts.TypeResolver),
             err |-> NoError]
       [] m = SIGN_MODE_TEXTUAL ->
            [h |-> txt.h,
             err |-> IF configOpts.TextualCoinMetadataQueryFn = ""
                       THEN ErrNoQueryFn ELSE txt.err]
       [] OTHER -> [h |-> NilHandler, err |-> NoError]

SwitchCase_SwallowError(m, configOpts, signingOpts, f) ==
  LET aux == DirectAuxNewSignModeHandler(signingOpts.TypeResolver,
                                         configOpts.SigningContext, f)
      txt == TextualNewSignModeHandler(configOpts.TextualCoinMetadataQueryFn,
                                       signingOpts.FileResolver,
                                       signingOpts.TypeResolver, f)
  IN CASE m = SIGN_MODE_DIRECT -> [h |-> DirectSignModeHandler, err |-> NoError]
       [] m = SIGN_MODE_DIRECT_AUX -> [h |-> aux.h, err |-> NoError]
       [] m = SIGN_MODE_LEGACY_AMINO_JSON ->
            [h |-> AminoJSONNewSignModeHandler(signingOpts.FileResolver,
                                               signingOpts.TypeResolver),
             err |-> NoError]
       [] m = SIGN_MODE_TEXTUAL ->
            [h |-> txt.h,
             err |-> IF configOpts.TextualCoinMetadataQueryFn = ""
                       THEN ErrNoQueryFn ELSE NoError]
       [] OTHER -> [h |-> NilHandler, err |-> NoError]

SwitchCase(m, configOpts, signingOpts, f) ==
  LET aux == DirectAuxNewSignModeHandler(signingOpts.TypeResolver,
                                         configOpts.SigningContext, f)
      txt == TextualNewSignModeHandler(configOpts.TextualCoinMetadataQueryFn,
                                       signingOpts.FileResolver,
                                       signingOpts.TypeResolver, f)
  IN CASE m = SIGN_MODE_DIRECT -> [h |-> DirectSignModeHandler, err |-> NoError]
       [] m = SIGN_MODE_DIRECT_AUX -> [h |-> aux.h, err |-> aux.err]
       [] m = SIGN_MODE_LEGACY_AMINO_JSON ->
            [h |-> AminoJSONNewSignModeHandler(signingOpts.FileResolver,
                                               signingOpts.TypeResolver),
             err |-> NoError]
       [] m = SIGN_MODE_TEXTUAL ->
            [h |-> txt.h,
             err |-> IF configOpts.TextualCoinMetadataQueryFn = ""
                       THEN ErrNoQueryFn ELSE txt.err]
       [] OTHER -> [h |-> NilHandler, err |-> NoError]

\* The loop over configOpts.EnabledSignModes from position i on.  attempted
\* lists the positions whose switch has been entered.
RECURSIVE BuildBuiltin(_, _, _, _, _, _)
BuildBuiltin(configOpts, signingOpts, f, i, handlers, attempted) ==
  IF i > Len(configOpts.EnabledSignModes)
    THEN [handlers |-> handlers, attempted |-> attempted, err |-> NoError]
  ELSE LET c == SwitchCase(configOpts.EnabledSignModes[i], configOpts, signingOpts, f)
           hs == [handlers EXCEPT ![i] = c.h]
           at == Append(attempted, i)
       IN IF c.err # NoError
            THEN [handlers |-> hs, attempted |-> at, err |-> c.err]
            ELSE BuildBuiltin(configOpts, signingOpts, f, i + 1, hs, at)

\* The slot of the handlers slice that receives the i-th custom handler.
CustomSlot(i, lenSignModes) == i + lenSignModes

\* The loop over configOpts.CustomSignModes.
RECURSIVE AppendCustom_Reversed(_, _, _, _)
AppendCustom_Reversed(customs, lenSignModes, i, handlers) ==
  IF i > Len(customs) THEN handlers
  ELSE AppendCustom_Reversed(customs, lenSignModes, i + 1,
         [handlers EXCEPT ![CustomSlot(Len(customs) + 1 - i, lenSignModes)] = customs[i]])

RECURSIVE AppendCustom(_, _, _, _)
AppendCustom(customs, lenSignModes, i, handlers) ==
  IF i > Len(customs) THEN handlers
  ELSE AppendCustom(customs, lenSignModes, i + 1,
                    [handlers EXCEPT ![CustomSlot(i, lenSignModes)] = customs[i]])

\* The enabled-mode list the handlers are built from.
ResolveEnabledSignModes_Always(enabled) == DefaultSignModes

ResolveEnabledSignModes(enabled) ==
  IF Len(enabled) = 0 THEN DefaultSignModes ELSE enabled

\* The outcome of a call of NewSigningHandlerMap: its two results, the abort
\* it may end in, and what its locals held when it ended.
Outcome(handler, err, panic, configOpts, handlers, attempted, appended) ==
  [called |-> TRUE, handler |-> handler, err |-> err, panic |-> panic,
   configOpts |-> configOpts, handlers |-> handlers, attempted |-> attempted,
   appended |-> appended]

NoOutcome ==
  [called |-> FALSE, handler |-> NilHandlerMap, err |-> NoError, panic |-> NoPanic,
   configOpts |-> NilConfigOptions, handlers |-> <<>>, attempted |-> <<>>,
   appended |-> 0]

NewSigningHandlerMap(configOpts, sdkCfg, f) ==
  LET dflt == NewDefaultSigningOptions(sdkCfg)
      o1 == IF configOpts.SigningOptions.nil
              THEN [configOpts EXCEPT !.SigningOptions = dflt.options]
              ELSE configOpts
      ctx == NewContext(o1.SigningOptions, f)
      o2 == IF o1.SigningContext.nil
              THEN [o1 EXCEPT !.SigningContext = ctx.context]
              ELSE o1
      signingOpts == o2.SigningOptions
      o3 == [o2 EXCEPT !.EnabledSignModes = ResolveEnabledSignModes(@)]
      lenSignModes == Len(o3.EnabledSignModes)
      built == BuildBuiltin(o3, signingOpts, f, 1,
                            MakeHandlers(lenSignModes + Len(o3.CustomSignModes)), <<>>)
      handlers == AppendCustom(o3.CustomSignModes, lenSignModes, 1, built.handlers)
      hm == NewHandlerMap(handlers)
  IN IF configOpts.SigningOptions.nil /\ dflt.err # NoError
       THEN Outcome(NilHandlerMap, dflt.err, NoPanic, o1, <<>>, <<>>, 0)
     ELSE IF o1.SigningContext.nil /\ ctx.err # NoError
       THEN Outcome(NilHandlerMap, ctx.err, NoPanic, o2, <<>>, <<>>, 0)
     ELSE IF built.err # NoError
       THEN Outcome(NilHandlerMap, built.err, NoPanic, o3, built.handlers,
                    built.attempted, 0)
     ELSE Outcome(hm.handler, NoError, hm.panic, o3, handlers, built.attempted,
                  Len(o3.CustomSignModes))

(***************************************************************************)
(* The config facade and its constructors.                                 *)
(***************************************************************************)
NilCoder == [fn |-> "", cdc |-> ""]

NilConfig ==
  [nil |-> TRUE, handler |-> NilHandlerMap, decoder |-> NilCoder, encoder |-> NilCoder,
   jsonDecoder |-> NilCoder, jsonEncoder |-> NilCoder, protoCodec |-> ""]

NewTxConfigWithHandler(protoCodec, handler) ==
  [nil |-> FALSE,
   handler |-> handler,
   decoder |-> [fn |-> "DefaultTxDecoder", cdc |-> protoCodec],
   encoder |-> [fn |-> "DefaultTxEncoder", cdc |-> ""],
   jsonDecoder |-> [fn |-> "DefaultJSONTxDecoder", cdc |-> protoCodec],
   jsonEncoder |-> [fn |-> "DefaultJSONTxEncoder", cdc |-> protoCodec],
   protoCodec |-> protoCodec]

ConfigOutcome(via, config, err, panic) ==
  [called |-> TRUE, via |-> via, config |-> config, err |-> err, panic |-> panic]

NoConfigOutcome ==
  [called |-> FALSE, via |-> "", config |-> NilConfig, err |-> NoError, panic |-> NoPanic]

\* NewTxConfigWithOptions: builds the handler map from the options and returns
\* its error, if any, with no config.
NewTxConfigWithOptions(protoCodec, configOptions, sdkCfg, f) ==
  LET hm == NewSigningHandlerMap(configOptions, sdkCfg, f)
  IN IF hm.panic # NoPanic
       THEN ConfigOutcome("NewTxConfigWithOptions", NilConfig, NoError, hm.panic)
     ELSE IF hm.err # NoError
       THEN ConfigOutcome("NewTxConfigWithOptions", NilConfig, hm.err, NoPanic)
     ELSE ConfigOutcome("NewTxConfigWithOptions",
                        NewTxConfigWithHandler(protoCodec, hm.handler), NoError, NoPanic)

\* What NewTxConfig does with a non-nil err of NewTxConfigWithOptions.
OnOptionsError_ReturnPartial(r) ==
  ConfigOutcome("NewTxConfig", NewTxConfigWithHandler("", NilHandlerMap), NoError, NoPanic)

OnOptionsError(r) == ConfigOutcome("NewTxConfig", NilConfig, NoError, r.err)

NewTxConfig(protoCodec, enabledSignModes, customSignModes, sdkCfg, f) ==
  LET r == NewTxConfigWithOptions(protoCodec,
             [NilConfigOptions EXCEPT !.EnabledSignModes = enabledSignModes,
                                      !.CustomSignModes = customSignModes],
             sdkCfg, f)
  IN IF r.panic # NoPanic
       THEN ConfigOutcome("NewTxConfig", NilConfig, NoError, r.panic)
     ELSE IF r.err # NoError
       THEN OnOptionsError(r)
     ELSE ConfigOutcome("NewTxConfig", r.config, NoError, NoPanic)

(***************************************************************************)
(* Inputs tried.                                                           *)
(***************************************************************************)
SeqsUpTo(S, n) == UNION {[1..k -> S] : k \in 0..n}

EnabledModes == {SIGN_MODE_UNSPECIFIED, SIGN_MODE_DIRECT, SIGN_MODE_TEXTUAL,
                 SIGN_MODE_DIRECT_AUX, SIGN_MODE_LEGACY_AMINO_JSON}

EnabledLists == SeqsUpTo(EnabledModes, MaxEnabled)

CustomLists == SeqsUpTo({CustomHandler(SIGN_MODE_EIP_191), CustomHandler(SIGN_MODE_DIRECT)},
                        MaxCustom)

SuppliedOptions(typeResolver) ==
  [nil |-> FALSE, AddressCodec |-> NewBech32Codec("custom"),
   ValidatorAddressCodec |-> NewBech32Codec("customvaloper"),
   TypeResolver |-> typeResolver, FileResolver |-> "files"]

SuppliedContext ==
  [nil |-> FALSE, addressCodec |-> NewBech32Codec("ctx"),
   validatorAddressCodec |-> NewBech32Codec("ctxvaloper"),
   typeResolver |-> "ctxtypes", fileResolver |-> "ctxfiles"]

OptionsChoices == {NilOptions, SuppliedOptions("types")}

ContextChoices == {NilContext, SuppliedContext}

QueryFnChoices == {"", "queryFn"}

FaultChoices == {{}, {"context"}, {"textual"}}

ConfigOptionsChoices ==
  [EnabledSignModes : EnabledLists, CustomSignModes : CustomLists,
   SigningOptions : OptionsChoices, SigningContext : ContextChoices,
   TextualCoinMetadataQueryFn : QueryFnChoices]

SdkConfigs ==
  {[bech32AccountAddrPrefix |-> "cosmos", bech32ValidatorAddrPrefix |-> "cosmosvaloper"],
   [bech32AccountAddrPrefix |-> "sacas", bech32ValidatorAddrPrefix |-> "sacasvaloper"]}

Codecs == {"cdcA", "cdcB"}

\* The codec the application passes to the TxConfig constructors.
AppCodec == "cdcA"

NoCall == [args |-> NilConfigOptions, sdk |-> CHOOSE c \in SdkConfigs : TRUE,
           out |-> NoOutcome]

(***************************************************************************)
(* Construction: state and actions.                                        *)
(***************************************************************************)
InitHM ==
  /\ sdkConfig \in SdkConfigs
  /\ callerOpts = NilConfigOptions
  /\ faults = {}
  /\ first = NoCall
  /\ second = NoCall
  /\ cfgRes = NoConfigOutcome

\* The caller builds a ConfigOptions value and calls NewSigningHandlerMap.
CallNewSigningHandlerMap ==
  /\ ~first.out.called
  /\ ~cfgRes.called
  /\ \E o \in ConfigOptionsChoices, f \in FaultChoices :
       LET out == NewSigningHandlerMap(o, sdkConfig, f)
       IN /\ first' = [args |-> o, sdk |-> sdkConfig, out |-> out]
          /\ callerOpts' = CallerSees(o, out.configOpts)
          /\ faults' = f
  /\ UNCHANGED <<sdkConfig, second, cfgRes, txVars>>

\* The caller calls NewSigningHandlerMap once more with the value it holds.
CallAgain ==
  /\ first.out.called
  /\ ~second.out.called
  /\ LET out == NewSigningHandlerMap(callerOpts, sdkConfig, faults)
     IN /\ second' = [args |-> callerOpts, sdk |-> sdkConfig, out |-> out]
        /\ callerOpts' = CallerSees(callerOpts, out.configOpts)
  /\ UNCHANGED <<sdkConfig, faults, first, cfgRes, txVars>>

\* The application changes the process-wide address prefixes between two
\* calls (a change before the first call is another initial state).
SetBech32Prefix ==
  /\ first.out.called
  /\ ~second.out.called
  /\ \E c \in SdkConfigs : c # sdkConfig /\ sdkConfig' = c
  /\ UNCHANGED <<callerOpts, faults, first, second, cfgRes, txVars>>

CallNewTxConfig ==
  /\ ~first.out.called
  /\ ~cfgRes.called
  /\ \E e \in EnabledLists, c \in CustomLists, f \in FaultChoices :
       /\ cfgRes' = NewTxConfig(AppCodec, e, c, sdkConfig, f)
       /\ callerOpts' = [NilConfigOptions EXCEPT !.EnabledSignModes = e,
                                                !.CustomSignModes = c]
       /\ faults' = f
  /\ UNCHANGED <<sdkConfig, first, second, txVars>>

CallNewTxConfigWithOptions ==
  /\ ~first.out.called
  /\ ~cfgRes.called
  /\ \E o \in ConfigOptionsChoices, f \in FaultChoices :
       /\ cfgRes' = NewTxConfigWithOptions(AppCodec, o, sdkConfig, f)
       /\ callerOpts' = o
       /\ faults' = f
  /\ UNCHANGED <<sdkConfig, first, second, txVars>>

NextHM ==
  \/ CallNewSigningHandlerMap
  \/ CallAgain
  \/ SetBech32Prefix
  \/ CallNewTxConfig
  \/ CallNewTxConfigWithOptions

\* The builder operations are not exercised while the constructors are.
Init == InitHM /\ facade = NilConfig /\ heap = <<>> /\ wraps = <<>>

Spec == Init /\ [][NextHM]_vars

(***************************************************************************)
(* Builders: transaction objects live in a heap and are handled by         *)
(* reference: the builder is a pointer to a wrapper, sdk.Tx an interface.  *)
(***************************************************************************)
Refs == 1..MaxObjs

NilRef == 0

Memos == {"", "memo"}

FreeObj == [kind |-> "free", cdc |-> "", memo |-> ""]

\* newBuilder: an empty wrapper bound to the codec it is given.
newBuilder(cdc) == [kind |-> "wrapper", cdc |-> cdc, memo |-> ""]

\* The first unused reference, NilRef when the heap is full.
Alloc(h) ==
  IF \E r \in Refs : h[r].kind = "free"
    THEN CHOOSE r \in Refs : h[r].kind = "free" /\ \A q \in 1..(r - 1) : h[q].kind # "free"
    ELSE NilRef

\* wrapper.GetTx: the transaction content the builder stands for.
GetTx(h, b) == [memo |-> h[b].memo]

\* config.NewTxBuilder: the reference of the new builder and the heap after.
ConfigNewTxBuilder(g, h) ==
  LET r == Alloc(h)
  IN [builder |-> r, heap |-> [h EXCEPT ![r] = newBuilder(g.protoCodec)]]

\* config.WrapTxBuilder: the builder and error returned, and the heap after.
WrapTxBuilder_Copy(g, h, newTx) ==
  IF h[newTx].kind = "wrapper"
    THEN IF Alloc(h) = NilRef
           THEN [builder |-> newTx, err |-> NoError, heap |-> h]
           ELSE [builder |-> Alloc(h), err |-> NoError,
                 heap |-> [h EXCEPT ![Alloc(h)] = h[newTx]]]
    ELSE [builder |-> NilRef, err |-> ErrTypeMismatch, heap |-> h]

WrapTxBuilder_NoTypeCheck(g, h, newTx) ==
  [builder |-> newTx, err |-> NoError, heap |-> h]

WrapTxBuilder(g, h, newTx) ==
  IF h[newTx].kind = "wrapper"
    THEN [builder |-> newTx, err |-> NoError, heap |-> h]
    ELSE [builder |-> NilRef, err |-> ErrTypeMismatch, heap |-> h]

InitTx ==
  /\ \E cdc \in Codecs :
       facade = NewTxConfigWithHandler(cdc,
                  NewSigningHandlerMap(NilConfigOptions, NoCall.sdk, {}).handler)
  /\ heap = [r \in Refs |-> FreeObj]
  /\ wraps = <<>>

CallNewTxBuilder ==
  /\ Alloc(heap) # NilRef
  /\ heap' = ConfigNewTxBuilder(facade, heap).heap
  /\ UNCHANGED <<facade, wraps, hmVars>>

\* A transaction of another implementation of sdk.Tx comes into existence.
ForeignTx ==
  /\ Alloc(heap) # NilRef
  /\ \E m \in Memos :
       heap' = [heap EXCEPT ![Alloc(heap)] = [kind |-> "foreign", cdc |-> "", memo |-> m]]
  /\ UNCHANGED <<facade, wraps, hmVars>>

CallWrapTxBuilder ==
  /\ Len(wraps) < MaxWraps
  /\ \E newTx \in Refs :
       /\ heap[newTx].kind # "free"
       /\ LET w == WrapTxBuilder(facade, heap, newTx)
          IN /\ heap' = w.heap
             /\ wraps' = Append(wraps,
                  [tx |-> newTx, builder |-> w.builder, err |-> w.err,
                   before |-> GetTx(heap, newTx),
                   after |-> IF w.builder = NilRef THEN GetTx(heap, newTx)
                             ELSE GetTx(w.heap, w.builder)])
  /\ UNCHANGED <<facade, hmVars>>

\* wrapper.SetMemo on a builder the caller holds.
SetMemo ==
  /\ \E b \in Refs, m \in Memos :
       /\ heap[b].kind = "wrapper"
       /\ m # heap[b].memo
       /\ heap' = [heap EXCEPT ![b].memo = m]
  /\ UNCHANGED <<facade, wraps, hmVars>>

NextTx ==
  \/ CallNewTxBuilder
  \/ ForeignTx
  \/ CallWrapTxBuilder
  \/ SetMemo

\* The constructors are not exercised while the builder operations are.
TxInit ==
  /\ sdkConfig = NoCall.sdk /\ callerOpts = NilConfigOptions /\ faults = {}
  /\ first = NoCall /\ second = NoCall /\ cfgRes = NoConfigOutcome
  /\ InitTx

TxSpec == TxInit /\ [][NextTx]_vars

(***************************************************************************)
(* Properties of the handler-map construction.  They are stated on the     *)
(* arguments of a call and its outcome; what a call should do is worked    *)
(* out here from the arguments alone.                                      *)
(***************************************************************************)
Calls == {c \in {first, second} : c.out.called}

Succeeded(out) == out.called /\ out.err = NoError /\ out.panic = NoPanic

\* The enabled-mode list a call works from.
EnabledOf(args) ==
  IF args.EnabledSignModes = <<>> THEN DefaultSignModes ELSE args.EnabledSignModes

CustomModesOf(args) ==
  [i \in 1..Len(args.CustomSignModes) |-> args.CustomSignModes[i].mode]

ElementsOf(seq) == {seq[i] : i \in 1..Len(seq)}

\* The type resolver the built-in handlers are given.
TypeResolverOf(args) ==
  IF args.SigningOptions.nil THEN "" ELSE args.SigningOptions.TypeResolver

\* The signing context cannot be derived.
ContextFails(args, f) == args.SigningContext.nil /\ "context" \in f

\* Building the built-in handler of mode m cannot succeed.
CannotBuild(m, args, f) ==
  \/ m = SIGN_MODE_DIRECT_AUX /\ TypeResolverOf(args) = ""
  \/ m = SIGN_MODE_TEXTUAL /\ (args.TextualCoinMetadataQueryFn = "" \/ "textual" \in f)

FailingPositions(args, f) ==
  {i \in 1..Len(EnabledOf(args)) : CannotBuild(EnabledOf(args)[i], args, f)}

FirstFailing(args, f) ==
  CHOOSE i \in FailingPositions(args, f) : \A j \in FailingPositions(args, f) : i <= j

\* The error the failing position i is to be reported with.
ErrorAt(i, args) ==
  IF EnabledOf(args)[i] = SIGN_MODE_DIRECT_AUX THEN ErrDirectAux
  ELSE IF args.TextualCoinMetadataQueryFn = "" THEN ErrNoQueryFn
  ELSE ErrTextual

\* C1 (as claimed): a call that returns no error has filled the slot of every
\* enabled mode, looking up any enabled mode gives a handler, and looking up
\* a mode that is neither enabled nor the mode of a custom handler gives the
\* unsupported-mode error.
C1_EveryEnabledModeHasHandler ==
  \A c \in Calls :
    c.out.err = NoError =>
      /\ \A i \in 1..Len(EnabledOf(c.args)) : ~c.out.handlers[i].nil
      /\ \A m \in ElementsOf(EnabledOf(c.args)) :
           /\ ~Lookup(c.out.handler, m).h.nil
           /\ Lookup(c.out.handler, m).err = NoError
      /\ \A m \in SignMode \ (ElementsOf(EnabledOf(c.args)) \cup
                              ElementsOf(CustomModesOf(c.args))) :
           Lookup(c.out.handler, m).err = ErrUnsupportedMode

\* C2: after a successful construction from a non-empty enabled list the
\* default mode of the map is the first enabled mode, whatever the custom
\* handlers are.
C2_DefaultModeIsFirstEnabled ==
  \A c \in Calls :
    (Succeeded(c.out) /\ c.args.EnabledSignModes # <<>>) =>
      DefaultMode(c.out.handler) = c.args.EnabledSignModes[1]

C2_Witness ==
  /\ Succeeded(first.out)
  /\ Len(first.args.EnabledSignModes) = 2
  /\ first.args.EnabledSignModes[1] = SIGN_MODE_LEGACY_AMINO_JSON
  /\ Len(first.args.CustomSignModes) = 1
  /\ first.args.CustomSignModes[1].mode = SIGN_MODE_DIRECT
  /\ DefaultMode(first.out.handler) = SIGN_MODE_LEGACY_AMINO_JSON

\* C3: after a successful construction the supported modes are the enabled
\* modes in their order followed by the modes of the custom handlers in their
\* order; enabled [Direct, LegacyAminoJSON] with no custom handler and default
\* signing options succeeds with exactly these two modes and default Direct.
C3_SupportedModesInOrder ==
  \A c \in Calls :
    /\ Succeeded(c.out) =>
         /\ SupportedModes(c.out.handler) = EnabledOf(c.args) \o CustomModesOf(c.args)
         /\ Len(SupportedModes(c.out.handler)) =
              Len(c.out.configOpts.EnabledSignModes) + Len(c.args.CustomSignModes)
    /\ ( /\ c.args.EnabledSignModes = <<SIGN_MODE_DIRECT, SIGN_MODE_LEGACY_AMINO_JSON>>
         /\ c.args.CustomSignModes = <<>>
         /\ c.args.SigningOptions.nil
         /\ ~ContextFails(c.args, faults) ) =>
         /\ Succeeded(c.out)
         /\ SupportedModes(c.out.handler) = <<SIGN_MODE_DIRECT, SIGN_MODE_LEGACY_AMINO_JSON>>
         /\ DefaultMode(c.out.handler) = SIGN_MODE_DIRECT

C3_Witness ==
  /\ Succeeded(first.out)
  /\ Len(first.args.EnabledSignModes) = 2
  /\ first.args.EnabledSignModes[1] # first.args.EnabledSignModes[2]
  /\ Len(first.args.CustomSignModes) = 2
  /\ first.args.CustomSignModes[1] # first.args.CustomSignModes[2]
  /\ Len(SupportedModes(first.out.handler)) = 4

\* C4: with Textual enabled and no TextualCoinMetadataQueryFn the call returns
\* an error and no handler map, wherever Textual stands in the list; the
\* error is the missing-query-function error unless an earlier step failed.
\* With the function supplied and the Textual constructor reporting no error,
\* the Textual handler is built: the call does not fail on Textual, and every
\* Textual slot it reaches holds a Textual handler using that function.
C4_TextualNeedsQueryFn ==
  \A c \in Calls :
    LET en == EnabledOf(c.args)
        txtAt == {i \in 1..Len(en) : en[i] = SIGN_MODE_TEXTUAL}
    IN txtAt # {} =>
         /\ c.args.TextualCoinMetadataQueryFn = "" =>
              /\ c.out.err # NoError
              /\ c.out.panic = NoPanic
              /\ c.out.handler.nil
              /\ ( /\ ~ContextFails(c.args, faults)
                   /\ FirstFailing(c.args, faults) \in txtAt ) =>
                   c.out.err = ErrNoQueryFn
         /\ (c.args.TextualCoinMetadataQueryFn # "" /\ "textual" \notin faults) =>
              /\ c.out.err \notin {ErrNoQueryFn, ErrTextual}
              /\ \A i \in txtAt :
                   (i < Len(c.out.attempted) \/
                    (i <= Len(c.out.attempted) /\ c.out.err = NoError)) =>
                     /\ c.out.handlers[i].impl = "textual"
                     /\ c.out.handlers[i].mode = SIGN_MODE_TEXTUAL
                     /\ c.out.handlers[i].CoinMetadataQuerier =
                          c.args.TextualCoinMetadataQueryFn

C4_Witness ==
  /\ first.out.called
  /\ first.args.EnabledSignModes = <<SIGN_MODE_DIRECT, SIGN_MODE_TEXTUAL>>
  /\ first.args.TextualCoinMetadataQueryFn = ""
  /\ first.out.err = ErrNoQueryFn
  /\ first.out.handler.nil

\* C6: when the built-in handler of position i is the first that cannot be
\* built, the call returns that position's error and no handler map, has
\* entered the switch for the positions 1..i only, has filled no slot after i
\* and has appended no custom handler.
C6_FailFast ==
  \A c \in Calls :
    (~ContextFails(c.args, faults) /\ FailingPositions(c.args, faults) # {}) =>
      LET i == FirstFailing(c.args, faults)
      IN /\ c.out.err = ErrorAt(i, c.args)
         /\ c.out.panic = NoPanic
         /\ c.out.handler.nil
         /\ c.out.attempted = [k \in 1..i |-> k]
         /\ c.out.appended = 0
         /\ \A k \in (i + 1)..Len(c.out.handlers) : c.out.handlers[k].nil

C6_Witness ==
  /\ first.out.called
  /\ first.args.EnabledSignModes = <<SIGN_MODE_DIRECT, SIGN_MODE_DIRECT_AUX>>
  /\ first.args.CustomSignModes # <<>>
  /\ first.out.err = ErrDirectAux
  /\ ~first.out.handlers[1].nil
  /\ first.out.handler.nil

\* An error arises while the handler map for args is built.
ErrorArises(args, f) == ContextFails(args, f) \/ FailingPositions(args, f) # {}

\* The error that arises first.
FirstError(args, f) ==
  IF ContextFails(args, f) THEN ErrNewContext ELSE ErrorAt(FirstFailing(args, f), args)

\* C7 (as claimed): whenever an error arises during construction, each of the
\* three constructors returns it as its error result, with a nil result and
\* without aborting.
C7_EveryErrorIsReturned ==
  /\ \A c \in Calls :
       ErrorArises(c.args, faults) =>
         c.out.err # NoError /\ c.out.panic = NoPanic /\ c.out.handler.nil
  /\ (cfgRes.called /\ ErrorArises(callerOpts, faults)) =>
       cfgRes.err # NoError /\ cfgRes.panic = NoPanic /\ cfgRes.config.nil

\* C7 (amended): NewSigningHandlerMap and NewTxConfigWithOptions return the
\* first error that arises as their error result, with a nil result and
\* without aborting; NewTxConfig, which has no error result, aborts with that
\* error as the panic value and returns no config.
C7_ErrorReturnedOrPanicked ==
  /\ \A c \in Calls :
       ErrorArises(c.args, faults) =>
         /\ c.out.err = FirstError(c.args, faults)
         /\ c.out.panic = NoPanic
         /\ c.out.handler.nil
  /\ (cfgRes.called /\ ErrorArises(callerOpts, faults)) =>
       /\ cfgRes.config.nil
       /\ cfgRes.via = "NewTxConfigWithOptions" =>
            cfgRes.err = FirstError(callerOpts, faults) /\ cfgRes.panic = NoPanic
       /\ cfgRes.via = "NewTxConfig" =>
            cfgRes.err = NoError /\ cfgRes.panic = FirstError(callerOpts, faults)

C7_Witness ==
  /\ cfgRes.called
  /\ cfgRes.via = "NewTxConfig"
  /\ callerOpts.EnabledSignModes = <<SIGN_MODE_DIRECT, SIGN_MODE_TEXTUAL>>
  /\ cfgRes.panic = ErrNoQueryFn
  /\ cfgRes.config.nil

\* C8: resolution fills only what the caller left unset.  Signing options
\* left nil are built from the global address prefixes, supplied ones are
\* kept; a signing context left nil is derived from the resolved options, a
\* supplied one is kept; an empty enabled list becomes DefaultSignModes, whose
\* first element is then the default mode, a non-empty one is kept; and the
\* built-in handlers are built from the resolved values.
C8_ResolutionFillsOnlyUnset ==
  \A c \in Calls :
    LET r == c.out.configOpts
        a == c.args
    IN /\ r.SigningOptions =
            IF a.SigningOptions.nil
              THEN [nil |-> FALSE,
                    AddressCodec |-> NewBech32Codec(c.sdk.bech32AccountAddrPrefix),
                    ValidatorAddressCodec |->
                      NewBech32Codec(c.sdk.bech32ValidatorAddrPrefix),
                    TypeResolver |-> "", FileResolver |-> ""]
              ELSE a.SigningOptions
       /\ ~a.SigningContext.nil => r.SigningContext = a.SigningContext
       /\ (a.SigningContext.nil /\ ~ContextFails(a, faults)) =>
            /\ ~r.SigningContext.nil
            /\ r.SigningContext.addressCodec = r.SigningOptions.AddressCodec
            /\ r.SigningContext.validatorAddressCodec =
                 r.SigningOptions.ValidatorAddressCodec
            /\ r.SigningContext.typeResolver = r.SigningOptions.TypeResolver
       /\ ~ContextFails(a, faults) =>
            /\ r.EnabledSignModes =
                 IF a.EnabledSignModes = <<>> THEN DefaultSignModes
                 ELSE a.EnabledSignModes
            /\ r.CustomSignModes = a.CustomSignModes
            /\ r.TextualCoinMetadataQueryFn = a.TextualCoinMetadataQueryFn
       /\ Succeeded(c.out) =>
            /\ a.EnabledSignModes = <<>> =>
                 /\ DefaultMode(c.out.handler) = DefaultSignModes[1]
                 /\ \A i \in 1..Len(DefaultSignModes) :
                      c.out.handlers[i].mode = DefaultSignModes[i]
            /\ \A i \in 1..Len(r.EnabledSignModes) :
                 /\ c.out.handlers[i].impl = "directaux" =>
                      /\ c.out.handlers[i].SignersContext = r.SigningContext
                      /\ c.out.handlers[i].TypeResolver = r.SigningOptions.TypeResolver
                 /\ c.out.handlers[i].impl \in {"aminojson", "textual"} =>
                      /\ c.out.handlers[i].FileResolver = r.SigningOptions.FileResolver
                      /\ c.out.handlers[i].TypeResolver = r.SigningOptions.TypeResolver

C8_Witness ==
  /\ Succeeded(first.out)
  /\ first.args.EnabledSignModes = <<>>
  /\ first.args.SigningOptions.nil
  /\ first.args.SigningContext.nil
  /\ first.out.configOpts.EnabledSignModes = DefaultSignModes
  /\ first.out.configOpts.SigningOptions.AddressCodec.Bech32Prefix = "sacas"
  /\ ~first.out.configOpts.SigningContext.nil

\* What of an outcome a caller can tell apart.
Observable(out) ==
  [err |-> out.err, panic |-> out.panic, nil |-> out.handler.nil,
   modes |-> SupportedModes(out.handler), defaultMode |-> DefaultMode(out.handler),
   addressCodec |-> out.configOpts.SigningOptions.AddressCodec,
   validatorAddressCodec |-> out.configOpts.SigningOptions.ValidatorAddressCodec]

C9_SameArgumentsSameOutcome ==
  /\ first.out.called => callerOpts = first.args
  /\ second.out.called =>
       /\ second.args = first.args
       /\ second.sdk = first.sdk => Observable(second.out) = Observable(first.out)
       /\ (second.sdk # first.sdk /\ first.args.SigningOptions.nil) =>
            /\ second.out.configOpts.SigningOptions.AddressCodec #
                 first.out.configOpts.SigningOptions.AddressCodec
            /\ second.out.configOpts.SigningOptions.ValidatorAddressCodec #
                 first.out.configOpts.SigningOptions.ValidatorAddressCodec

\* C9: a call leaves the caller's ConfigOptions value as it was, so the second
\* call is made with the arguments of the first; two calls under the same
\* global prefixes have the same observable outcome; two calls with nil
\* SigningOptions under different global prefixes resolve to different
\* default address codecs; and no call writes the global prefixes.
C9_ResolutionIdempotent ==
  /\ []C9_SameArgumentsSameOutcome
  /\ [][(first' # first \/ second' # second) => sdkConfig' = sdkConfig]_vars

C9_Witness ==
  /\ Succeeded(first.out)
  /\ Succeeded(second.out)
  /\ first.args.SigningOptions.nil
  /\ first.args.EnabledSignModes = <<>>
  /\ second.sdk = first.sdk
  /\ Observable(second.out) = Observable(first.out)

(***************************************************************************)
(* Properties of the builder operations of the facade.                     *)
(***************************************************************************)
WrapStep == Len(wraps') = Len(wraps) + 1

\* C5: WrapTxBuilder returns no error exactly for a transaction that is a
\* wrapper; the builder it returns then stands for the content the argument
\* had (finalizing it right away gives that content back); for any other
\* transaction it returns a nil builder and the type-mismatch error; and the
\* call changes neither a transaction nor the facade.
C5_WrapResults ==
  \A k \in 1..Len(wraps) :
    LET w == wraps[k]
    IN /\ w.err = NoError <=> heap[w.tx].kind = "wrapper"
       /\ w.err = NoError => (w.builder # NilRef /\ w.after = w.before)
       /\ w.err # NoError => (w.builder = NilRef /\ w.err = ErrTypeMismatch)

\* C5, with its frame: every recorded WrapTxBuilder call has the results
\* above, and the step of the call leaves the heap and the facade unchanged.
C5_WrapTxBuilder ==
  /\ []C5_WrapResults
  /\ [][WrapStep => (facade' = facade /\ heap' = heap)]_vars

C5_Witness ==
  /\ Len(wraps) = 2
  /\ wraps[1].err = NoError
  /\ wraps[1].before.memo = "memo"
  /\ wraps[2].err = ErrTypeMismatch
  /\ heap[wraps[2].tx].kind = "foreign"

\* C10: the builder WrapTxBuilder returns is the transaction it was given, so
\* the transaction and the builder always show the same content, whatever
\* setters have been called since, and two wraps of one transaction return
\* one builder; WrapTxBuilder and NewTxBuilder leave the facade as it was.
C10_BuilderIsTheTransaction ==
  /\ \A k \in 1..Len(wraps) :
       wraps[k].err = NoError =>
         /\ wraps[k].builder = wraps[k].tx
         /\ GetTx(heap, wraps[k].builder) = GetTx(heap, wraps[k].tx)
  /\ \A j, k \in 1..Len(wraps) :
       (wraps[j].err = NoError /\ wraps[k].err = NoError /\ wraps[j].tx = wraps[k].tx) =>
         wraps[j].builder = wraps[k].builder

\* C10, with its frame: the builder is always the transaction it was made
\* from, and no builder operation changes the facade.
C10_WrapDoesNotCopy ==
  /\ []C10_BuilderIsTheTransaction
  /\ [][facade' = facade]_vars

C10_Witness ==
  /\ Len(wraps) = 2
  /\ wraps[1].err = NoError
  /\ wraps[2].err = NoError
  /\ wraps[1].tx = wraps[2].tx
  /\ wraps[1].before.memo = ""
  /\ wraps[2].before.memo = "memo"
  /\ GetTx(heap, wraps[1].tx).memo = ""

====
